---- MODULE Spec2Model ----
(***************************************************************************)
(* A model of funcat's indicator functions (src/funcat/func.py).           *)
(*                                                                         *)
(* Buffers are sequences, oldest element first and most recent last, as    *)
(* the NumPy arrays of the source are.  A float is a record: a finite      *)
(* number, NaN, +inf or -inf.  The numeric kernels (talib.MA, talib.SUM,   *)
(* talib.MACD, np.abs) and the helpers of time_series.py and utils.py are  *)
(* not part of func.py; they are modelled from their interface contract.   *)
(***************************************************************************)
EXTENDS Integers, Sequences, FiniteSets, TLC

VARIABLES cond, n, s1, s2, init1, init2, bars, macd, created, out

vars == <<cond, n, s1, s2, init1, init2, bars, macd, created, out>>

(***************************************************************************)
(* Bounds of the model.                                                    *)
(***************************************************************************)
\* The longest input of CrossOver, minimum, maximum and iif.
MaxLen == 4
\* The longest buffer a derived series is built from.
MaxBuf == 3
\* The longest condition series given to count and every.
MaxCondLen == 4
\* The longest bar history.
MaxBars == 4
\* The number of MACDSeries instances that can exist.
MaxInst == 2

(***************************************************************************)
(* Floats.                                                                 *)
(***************************************************************************)
Fin(v) == [k |-> "fin", v |-> v]
NaN == [k |-> "nan", v |-> 0]
PosInf == [k |-> "inf", v |-> 1]
NegInf == [k |-> "inf", v |-> -1]

IsNaN(x) == x.k = "nan"
IsInf(x) == x.k = "inf"
IsFin(x) == x.k = "fin"

\* x > y of IEEE floats: false as soon as one side is NaN.
Gt(x, y) ==
    /\ ~IsNaN(x)
    /\ ~IsNaN(y)
    /\ \/ IsFin(x) /\ IsFin(y) /\ x.v > y.v
       \/ x = PosInf /\ y # PosInf
       \/ y = NegInf /\ x # NegInf

\* x <= y of IEEE floats: false as soon as one side is NaN.
Le(x, y) == ~IsNaN(x) /\ ~IsNaN(y) /\ ~Gt(x, y)

\* x + y of IEEE floats.
Add(x, y) ==
    IF IsNaN(x) \/ IsNaN(y) THEN NaN
    ELSE IF IsInf(x) /\ IsInf(y) THEN (IF x = y THEN x ELSE NaN)
    ELSE IF IsInf(x) THEN x
    ELSE IF IsInf(y) THEN y
    ELSE Fin(x.v + y.v)

\* -x of IEEE floats.
Neg(x) ==
    IF IsNaN(x) THEN NaN
    ELSE IF IsInf(x) THEN [k |-> "inf", v |-> 0 - x.v]
    ELSE Fin(0 - x.v)

Sub(x, y) == Add(x, Neg(y))

\* c * x for a positive integer c.
Scale(c, x) == IF IsFin(x) THEN Fin(c * x.v) ELSE x

\* |x| of IEEE floats.
AbsVal(x) ==
    IF IsNaN(x) THEN NaN
    ELSE IF IsInf(x) THEN PosInf
    ELSE IF x.v < 0 THEN Fin(0 - x.v) ELSE x

(***************************************************************************)
(* Python slices of a buffer.                                              *)
(***************************************************************************)
\* s[-k:] : the last k elements; the whole of s when k = 0 or k >= len(s).
LastN(s, k) ==
    IF k = 0 \/ k >= Len(s) THEN s
    ELSE SubSeq(s, Len(s) - k + 1, Len(s))

\* s[:-1] : s without its most recent element.
DropLast(s) == IF Len(s) = 0 THEN s ELSE SubSeq(s, 1, Len(s) - 1)

\* The sequences over S of length 0 .. m.
SeqsUpTo(S, m) == UNION {[1..l -> S] : l \in 0..m}

(***************************************************************************)
(* Helpers of time_series.py, modelled from the specification.             *)
(***************************************************************************)
Min2(x, y) == IF x <= y THEN x ELSE y

\* fit_series(a, b): both buffers cut to their trailing min(len(a), len(b))
\* elements; the oldest elements of the longer one are dropped.
FitSeries(a, b) ==
    LET size == Min2(Len(a), Len(b))
    IN  <<SubSeq(a, Len(a) - size + 1, Len(a)), SubSeq(b, Len(b) - size + 1, Len(b))>>

\* series[k].series: the buffer k periods back, its k most recent elements
\* dropped (k <= len(series)).
GetItem(s, k) == SubSeq(s, 1, Len(s) - k)

\* The result of one call, as the caller sees it.
\* raised is the type of the exception that left the call ("none": the call
\* returned res) and arg what the exception carries: a message, or the type
\* of the exception it wraps.
\* kcalled tells whether a numeric kernel was invoked and karg is the buffer
\* it was given; inst, other and before are used by the MACDSeries calls.
NoInst ==
    [alive |-> FALSE, dynamic |-> FALSE, hasSeries |-> FALSE, series |-> <<>>,
     fastperiod |-> 0, slowperiod |-> 0, signalperiod |-> 0]

Returned(op, res) ==
    [op |-> op, raised |-> "none", arg |-> "", res |-> res, kcalled |-> FALSE,
     karg |-> <<>>, inst |-> 0, other |-> 0, before |-> NoInst]

Raised(op, exc, arg) ==
    [op |-> op, raised |-> exc, arg |-> arg, res |-> <<>>, kcalled |-> FALSE,
     karg |-> <<>>, inst |-> 0, other |-> 0, before |-> NoInst]

(***************************************************************************)
(* count and every.                                                        *)
(***************************************************************************)
\* len(s[s == True])
RECURSIVE TrueCount(_)
TrueCount(s) ==
    IF Len(s) = 0 THEN 0
    ELSE (IF s[Len(s)] THEN 1 ELSE 0) + TrueCount(DropLast(s))

\* The loop of count: for i in range(size - 1, 0, -1), i counted from 0;
\* result[i] is element i + 1 of the sequence.
RECURSIVE CountLoop(_, _, _, _)
CountLoop(series, result, i, k) ==
    IF i <= 0 THEN result
    ELSE CountLoop(DropLast(series),
                   [result EXCEPT ![i + 1] = TrueCount(LastN(series, k))],
                   i - 1, k)

\* count(cond, n): np.full raises ValueError for a negative size, which is
\* re-raised as a FormulaException.
Count(c, k) ==
    LET size == Len(c) - k
    IN  IF size < 0 THEN Raised("count", "FormulaException", "ValueError")
        ELSE Returned("count", CountLoop(c, [i \in 1..size |-> 0], size - 1, k))

\* every(cond, n): count(cond, n) == n, elementwise.
Every(c, k) ==
    LET r == Count(c, k)
    IN  IF r.raised # "none" THEN Raised("every", r.raised, r.arg)
        ELSE Returned("every", [i \in 1..Len(r.res) |-> r.res[i] = k])

(***************************************************************************)
(* CrossOver, minimum, maximum, iif.                                       *)
(***************************************************************************)
\* CrossOver with the earlier period compared by < in place of <=.
CrossOverStrictBefore(a, b) ==
    IF Len(a) < 1 \/ Len(b) < 1
    THEN Raised("CrossOver", "FormulaException", "index out of range")
    ELSE LET f1 == FitSeries(a, b)
             cond1 == [i \in 1..Len(f1[1]) |-> Gt(f1[1][i], f1[2][i])]
             f2 == FitSeries(GetItem(a, 1), GetItem(b, 1))
             cond2 == [i \in 1..Len(f2[1]) |-> Gt(f2[2][i], f2[1][i])]
             f3 == FitSeries(cond1, cond2)
         IN  Returned("CrossOver", [i \in 1..Len(f3[1]) |-> f3[1][i] /\ f3[2][i]])

\* CrossOver(s1, s2).  Indexing an empty series one period back is out of
\* range and fails.
CrossOver(a, b) ==
    IF Len(a) < 1 \/ Len(b) < 1
    THEN Raised("CrossOver", "FormulaException", "index out of range")
    ELSE LET f1 == FitSeries(a, b)
             cond1 == [i \in 1..Len(f1[1]) |-> Gt(f1[1][i], f1[2][i])]
             f2 == FitSeries(GetItem(a, 1), GetItem(b, 1))
             cond2 == [i \in 1..Len(f2[1]) |-> Le(f2[1][i], f2[2][i])]
             f3 == FitSeries(cond1, cond2)
         IN  Returned("CrossOver", [i \in 1..Len(f3[1]) |-> f3[1][i] /\ f3[2][i]])

\* np.minimum(x, y): NaN as soon as one side is NaN.
NpMinimum(x, y) ==
    IF IsNaN(x) \/ IsNaN(y) THEN NaN ELSE IF Gt(x, y) THEN y ELSE x

\* np.maximum(x, y): NaN as soon as one side is NaN.
NpMaximum(x, y) ==
    IF IsNaN(x) \/ IsNaN(y) THEN NaN ELSE IF Gt(y, x) THEN y ELSE x

\* minimum without its test for an empty input.
MinimumUnchecked(a, b) ==
    LET f == FitSeries(a, b)
    IN  Returned("minimum", [i \in 1..Len(f[1]) |-> NpMinimum(f[1][i], f[2][i])])

\* minimum(s1, s2)
Minimum(a, b) ==
    IF Len(a) = 0 \/ Len(b) = 0
    THEN Raised("minimum", "FormulaException", "minimum size == 0")
    ELSE LET f == FitSeries(a, b)
         IN  Returned("minimum", [i \in 1..Len(f[1]) |-> NpMinimum(f[1][i], f[2][i])])

\* maximum(s1, s2)
Maximum(a, b) ==
    IF Len(a) = 0 \/ Len(b) = 0
    THEN Raised("maximum", "FormulaException", "maximum size == 0")
    ELSE LET f == FitSeries(a, b)
         IN  Returned("maximum", [i \in 1..Len(f[1]) |-> NpMaximum(f[1][i], f[2][i])])

\* iif with the condition cut to its oldest elements, condition.series[:len],
\* in place of its most recent ones.
IifLeadingWindow(c, a, b) ==
    LET f == FitSeries(a, b)
        cond_series == SubSeq(c, 1, Min2(Len(c), Len(f[1])))
    IN  IF Len(cond_series) # Len(f[2])
        THEN Raised("iif", "IndexError", "boolean index did not match")
        ELSE Returned("iif", [i \in 1..Len(f[2]) |->
                                 IF cond_series[i] THEN f[1][i] ELSE f[2][i]])

\* iif(condition, true_statement, false_statement).  NumPy refuses a boolean
\* mask whose length is not the length of the array it indexes (IndexError).
Iif(c, a, b) ==
    LET f == FitSeries(a, b)
        cond_series == LastN(c, Len(f[1]))
    IN  IF Len(cond_series) # Len(f[2])
        THEN Raised("iif", "IndexError", "boolean index did not match")
        ELSE Returned("iif", [i \in 1..Len(f[2]) |->
                                 IF cond_series[i] THEN f[1][i] ELSE f[2][i]])

(***************************************************************************)
(* The numeric kernels (TA-Lib, NumPy), by their contract: pure and         *)
(* deterministic, an output as long as the input, NaN over the lookback,    *)
(* an Exception for a period out of the kernel's range.  The averages are   *)
(* kept as integers: each output is the weighted sum of its window, that    *)
(* is the average times the sum of the weights.                             *)
(***************************************************************************)
RECURSIVE Pow2(_)
Pow2(j) == IF j <= 0 THEN 1 ELSE 2 * Pow2(j - 1)

\* The weight of the j-th element (oldest first) of a window.
Weight(func, j) ==
    IF func = "WMA" THEN j ELSE IF func = "EMA" THEN Pow2(j - 1) ELSE 1

\* The weighted sum of the p elements of buf that end at position i.
RECURSIVE WindowSum(_, _, _, _, _)
WindowSum(func, buf, i, p, j) ==
    IF j > p THEN Fin(0)
    ELSE Add(Scale(Weight(func, j), buf[i - p + j]), WindowSum(func, buf, i, p, j + 1))

\* The smallest period the kernel accepts: 1 for talib.MA, 2 for talib.WMA,
\* talib.EMA and talib.SUM.
MinPeriod(func) == IF func = "MA" THEN 1 ELSE 2

KernelFails(func, arg) == arg < MinPeriod(func)

\* talib.MA / talib.WMA / talib.EMA / talib.SUM (buf, arg), arg in range.
Kernel(func, buf, arg) ==
    [i \in 1..Len(buf) |-> IF i < arg THEN NaN ELSE WindowSum(func, buf, i, arg, 1)]

\* np.abs(buf)
NpAbs(buf) == [i \in 1..Len(buf) |-> AbsVal(buf[i])]

\* talib.MACD refuses fastperiod < 2, slowperiod < 2 and signalperiod < 1.
MACDFails(fast, slow, signal) == fast < 2 \/ slow < 2 \/ signal < 1

\* The fast average minus the slow one at position i, both on the common
\* scale fast * slow (TA-Lib swaps the two periods when slow < fast).
MACDLine(close, fast, slow, i) ==
    LET f == Min2(fast, slow)
        s == IF fast < slow THEN slow ELSE fast
    IN  Sub(Scale(s, WindowSum("MA", close, i, f, 1)),
            Scale(f, WindowSum("MA", close, i, s, 1)))

\* The signal line at position i: the average of the last signal values of
\* the MACD line, times signal.
RECURSIVE SignalSum(_, _, _, _, _)
SignalSum(close, fast, slow, i, j) ==
    IF j <= 0 THEN Fin(0)
    ELSE Add(MACDLine(close, fast, slow, i - j + 1),
             SignalSum(close, fast, slow, i, j - 1))

MACDLookback(fast, slow, signal) ==
    (IF fast < slow THEN slow ELSE fast) - 1 + signal - 1

\* talib.MACD(close, fastperiod, slowperiod, signalperiod): the three
\* outputs macd, macdsignal and macdhist = macd - macdsignal.
KernelMACD(close, fast, slow, signal) ==
    LET lb == MACDLookback(fast, slow, signal)
        o1 == [i \in 1..Len(close) |->
                 IF i <= lb THEN NaN ELSE Scale(signal, MACDLine(close, fast, slow, i))]
        o2 == [i \in 1..Len(close) |->
                 IF i <= lb THEN NaN ELSE SignalSum(close, fast, slow, i, signal)]
    IN  <<o1, o2, [i \in 1..Len(close) |-> Sub(o1[i], o2[i])]>>

(***************************************************************************)
(* The derived series built from a NumericSeries.                          *)
(***************************************************************************)
\* series[series == np.inf] = v
ReplacePosInf(buf, v) == [i \in 1..Len(buf) |-> IF buf[i] = PosInf THEN v ELSE buf[i]]

\* series[series == -np.inf] = v
ReplaceNegInf(buf, v) == [i \in 1..Len(buf) |-> IF buf[i] = NegInf THEN v ELSE buf[i]]

\* What OneArgumentSeries.__init__ hands to self.func: the buffer of the
\* input series, written in place.
OneArgumentInput(buf) == ReplacePosInf(buf, NaN)

\* What SumSeries.__init__ and AbsSeries.__init__ hand to the kernel: the
\* buffer of the input series, written in place.
SumInput(buf) == ReplaceNegInf(ReplacePosInf(buf, Fin(0)), Fin(0))

\* A constructor that ran its kernel on karg.
Built(op, karg, res) == [Returned(op, res) EXCEPT !.kcalled = TRUE, !.karg = karg]

\* The kernel raised: the constructor re-raises FormulaException(e).
Wrapped(op, karg) ==
    [Raised(op, "FormulaException", "Exception") EXCEPT !.kcalled = TRUE, !.karg = karg]

\* OneArgumentSeries.__init__(series, arg) of the subclass whose kernel is
\* func, series being a NumericSeries with buffer buf.
OneArgumentSeries(func, buf, arg) ==
    LET series == OneArgumentInput(buf)
    IN  IF KernelFails(func, arg) THEN Wrapped(func, series)
        ELSE Built(func, series, Kernel(func, series, arg))

\* SumSeries.__init__(series, period), series a NumericSeries.
SumSeries(buf, period) ==
    LET series == SumInput(buf)
    IN  IF KernelFails("SUM", period) THEN Wrapped("SUM", series)
        ELSE Built("SUM", series, Kernel("SUM", series, period))

\* AbsSeries.__init__(series), series a NumericSeries.
AbsSeries(buf) ==
    LET series == SumInput(buf)
    IN  Built("ABS", series, NpAbs(series))

(***************************************************************************)
(* MACDSeries.  An instance holds its buffer (hasSeries is false while it  *)
(* is None), its dynamic-update flag and its own extra_create_kwargs.      *)
(***************************************************************************)
Insts == 1..MaxInst

\* MACDSeries.__init__(fastperiod, slowperiod, signalperiod, series, dynamic_update)
MACDInit(fast, slow, signal, hasSeries, series, dynamic) ==
    [alive |-> TRUE, dynamic |-> dynamic, hasSeries |-> hasSeries, series |-> series,
     fastperiod |-> fast, slowperiod |-> slow, signalperiod |-> signal]

\* __call__ that stores the new periods in self as well.
MACDCallInPlace(self, fast, slow, signal) ==
    <<[self EXCEPT !.fastperiod = fast, !.slowperiod = slow, !.signalperiod = signal],
      MACDInit(fast, slow, signal, FALSE, <<>>, TRUE)>>

\* MACDSeries.__call__(self, fastperiod, slowperiod, signalperiod): self as
\* the call leaves it, and the instance the call returns.
MACDCall(self, fast, slow, signal) ==
    <<self, MACDInit(fast, slow, signal, FALSE, <<>>, TRUE)>>

\* Whether talib.MACD raises in self._ensure_series_update() on history b.
RefreshFails(self, b) ==
    /\ self.dynamic
    /\ Len(b) > 0
    /\ MACDFails(self.fastperiod, self.slowperiod, self.signalperiod)

\* A refresh that keeps the buffer it already has.
EnsureSeriesUpdateCached(self, b) ==
    IF ~self.dynamic \/ self.hasSeries THEN self
    ELSE IF Len(b) > 0
    THEN LET OSC == KernelMACD(b, self.fastperiod, self.slowperiod, self.signalperiod)[3]
         IN  [self EXCEPT !.hasSeries = TRUE,
                          !.series = [i \in 1..Len(OSC) |-> Scale(2, OSC[i])]]
    ELSE [self EXCEPT !.hasSeries = TRUE, !.series = b]

\* self after a self._ensure_series_update() that returns, b being the
\* "close" column of get_bars().
EnsureSeriesUpdate(self, b) ==
    IF ~self.dynamic THEN self
    ELSE IF Len(b) > 0
    THEN LET OSC == KernelMACD(b, self.fastperiod, self.slowperiod, self.signalperiod)[3]
         IN  [self EXCEPT !.hasSeries = TRUE,
                          !.series = [i \in 1..Len(OSC) |-> Scale(2, OSC[i])]]
    ELSE [self EXCEPT !.hasSeries = TRUE, !.series = b]

(***************************************************************************)
(* The bar source: get_bars() returns the history of the selected symbol   *)
(* up to the current date.  Symbol B has an infinite close.                *)
(***************************************************************************)
Symbols == {"A", "B"}

TapeValue(sym, i) ==
    IF sym = "A" THEN Fin(1 + ((i * (i - 1)) \div 2))
    ELSE IF i = 2 THEN PosInf ELSE Fin(i % 2)

Histories == {[i \in 1..l |-> TapeValue(sym, i)] : sym \in Symbols, l \in 0..MaxBars}

\* The periods instances are built with: the defaults, a pair of short
\* periods, and a fastperiod talib.MACD refuses.
PeriodArgs == {<<12, 26, 9>>, <<2, 3, 2>>, <<1, 3, 2>>}

(***************************************************************************)
(* Input domains.                                                          *)
(***************************************************************************)
Nums == {Fin(0), Fin(1), NaN}
Branches == {Fin(0), Fin(1)}
Floats == {Fin(-1), Fin(1), NaN, PosInf, NegInf}
RawArrays == {<<>>, <<PosInf>>}
Funcs == {"MA", "WMA", "EMA"}

Idle == Returned("init", <<>>)

(***************************************************************************)
(* count and every on a condition series.                                  *)
(***************************************************************************)
InitCount ==
    /\ cond \in SeqsUpTo(BOOLEAN, MaxCondLen)
    /\ n \in 0..(MaxCondLen + 1)
    /\ s1 = <<>> /\ s2 = <<>> /\ init1 = <<>> /\ init2 = <<>>
    /\ bars = <<>>
    /\ macd = [i \in Insts |-> NoInst]
    /\ created = [i \in Insts |-> NoInst]
    /\ out = Idle

DoCount ==
    /\ out' = Count(cond, n)
    /\ UNCHANGED <<cond, n, s1, s2, init1, init2, bars, macd, created>>

DoEvery ==
    /\ out' = Every(cond, n)
    /\ UNCHANGED <<cond, n, s1, s2, init1, init2, bars, macd, created>>

NextCount == DoCount \/ DoEvery

SpecCount == InitCount /\ [][NextCount]_vars

(***************************************************************************)
(* CrossOver, minimum and maximum on two numeric series.                   *)
(***************************************************************************)
InitBinary ==
    /\ cond = <<>>
    /\ n = 0
    /\ s1 \in SeqsUpTo(Nums, MaxLen)
    /\ s2 \in SeqsUpTo(Nums, MaxLen)
    /\ init1 = s1 /\ init2 = s2
    /\ bars = <<>>
    /\ macd = [i \in Insts |-> NoInst]
    /\ created = [i \in Insts |-> NoInst]
    /\ out = Idle

DoCrossOver ==
    /\ out' = CrossOver(s1, s2)
    /\ UNCHANGED <<cond, n, s1, s2, init1, init2, bars, macd, created>>

DoMinimum ==
    /\ out' = Minimum(s1, s2)
    /\ UNCHANGED <<cond, n, s1, s2, init1, init2, bars, macd, created>>

DoMaximum ==
    /\ out' = Maximum(s1, s2)
    /\ UNCHANGED <<cond, n, s1, s2, init1, init2, bars, macd, created>>

NextBinary == DoCrossOver \/ DoMinimum \/ DoMaximum

SpecBinary == InitBinary /\ [][NextBinary]_vars

(***************************************************************************)
(* iif on a condition series and two branches.                             *)
(***************************************************************************)
InitIif ==
    /\ cond \in SeqsUpTo(BOOLEAN, MaxLen)
    /\ n = 0
    /\ s1 \in SeqsUpTo(Branches, MaxLen)
    /\ s2 \in SeqsUpTo(Branches, MaxLen)
    /\ init1 = s1 /\ init2 = s2
    /\ bars = <<>>
    /\ macd = [i \in Insts |-> NoInst]
    /\ created = [i \in Insts |-> NoInst]
    /\ out = Idle

\* iif copies false_statement's buffer before it writes, so neither branch
\* is written.
DoIif ==
    /\ out' = Iif(cond, s1, s2)
    /\ UNCHANGED <<cond, n, s1, s2, init1, init2, bars, macd, created>>

NextIif == DoIif

SpecIif == InitIif /\ [][NextIif]_vars

(***************************************************************************)
(* Derived series built from the static NumericSeries whose buffer is s1,  *)
(* or from the raw array s2.                                               *)
(***************************************************************************)
InitDerived ==
    /\ cond = <<>>
    /\ n = 0
    /\ s1 \in SeqsUpTo(Floats, MaxBuf)
    /\ s2 \in RawArrays
    /\ init1 = s1 /\ init2 = s2
    /\ bars = <<>>
    /\ macd = [i \in Insts |-> NoInst]
    /\ created = [i \in Insts |-> NoInst]
    /\ out = Idle

\* OneArgumentSeries.__init__ and its subclasses
NewOneArgument ==
    \E func \in Funcs, arg \in 0..MaxBuf, isNumeric \in BOOLEAN :
        /\ IF isNumeric
           THEN /\ s1' = OneArgumentInput(s1)
                /\ out' = OneArgumentSeries(func, s1, arg)
           ELSE /\ s1' = s1
                /\ out' = Returned(func, s2)
        /\ UNCHANGED <<cond, n, s2, init1, init2, bars, macd, created>>

\* SumSeries.__init__
NewSum ==
    \E period \in 0..MaxBuf, isNumeric \in BOOLEAN :
        /\ IF isNumeric
           THEN /\ s1' = SumInput(s1)
                /\ out' = SumSeries(s1, period)
           ELSE /\ s1' = s1
                /\ out' = Returned("SUM", s2)
        /\ UNCHANGED <<cond, n, s2, init1, init2, bars, macd, created>>

\* AbsSeries.__init__
NewAbs ==
    \E isNumeric \in BOOLEAN :
        /\ IF isNumeric
           THEN /\ s1' = SumInput(s1)
                /\ out' = AbsSeries(s1)
           ELSE /\ s1' = s1
                /\ out' = Returned("ABS", s2)
        /\ UNCHANGED <<cond, n, s2, init1, init2, bars, macd, created>>

NextDerived == NewOneArgument \/ NewSum \/ NewAbs

SpecDerived == InitDerived /\ [][NextDerived]_vars

(***************************************************************************)
(* MACDSeries instances and the bar source.                                *)
(***************************************************************************)
InitMACD ==
    /\ cond = <<>>
    /\ n = 0
    /\ s1 = <<>> /\ s2 = <<>> /\ init1 = <<>> /\ init2 = <<>>
    /\ bars = <<>>
    /\ \E p \in PeriodArgs, dynamic \in BOOLEAN, hasSeries \in BOOLEAN :
          macd = [i \in Insts |->
                    IF i = 1
                    THEN MACDInit(p[1], p[2], p[3], hasSeries,
                                  IF hasSeries THEN <<Fin(3)>> ELSE <<>>, dynamic)
                    ELSE NoInst]
    /\ created = macd
    /\ out = Idle

\* The bar source moves to another date or another symbol.
UpdateBars ==
    /\ bars' \in Histories \ {bars}
    /\ out' = Returned("bars", <<>>)
    /\ UNCHANGED <<cond, n, s1, s2, init1, init2, macd, created>>

\* macd[i]._ensure_series_update(): talib.MACD is called in no try block,
\* so what it raises leaves the method as it is.
Refresh(i) ==
    /\ macd[i].alive
    /\ IF RefreshFails(macd[i], bars)
       THEN /\ macd' = macd
            /\ out' = [Raised("refresh", "Exception", "TA_BAD_PARAM") EXCEPT
                          !.kcalled = TRUE, !.karg = bars, !.inst = i]
       ELSE /\ macd' = [macd EXCEPT ![i] = EnsureSeriesUpdate(macd[i], bars)]
            /\ out' = [Returned("refresh", macd'[i].series) EXCEPT
                          !.kcalled = macd[i].dynamic /\ Len(bars) > 0,
                          !.karg = IF macd[i].dynamic THEN bars ELSE <<>>,
                          !.inst = i]
    /\ UNCHANGED <<cond, n, s1, s2, init1, init2, bars, created>>

\* macd[i](fastperiod, slowperiod, signalperiod); the instance returned is
\* kept as macd[j].
Call(i, j) ==
    /\ macd[i].alive
    /\ ~macd[j].alive
    /\ \A k \in Insts : k < j => macd[k].alive
    /\ \E p \in PeriodArgs :
          LET r == MACDCall(macd[i], p[1], p[2], p[3])
          IN  /\ macd' = [macd EXCEPT ![i] = r[1], ![j] = r[2]]
              /\ created' = [created EXCEPT ![j] =
                               MACDInit(p[1], p[2], p[3], FALSE, <<>>, TRUE)]
              /\ out' = [Returned("call", <<>>) EXCEPT
                            !.inst = i, !.other = j, !.before = macd[i]]
    /\ UNCHANGED <<cond, n, s1, s2, init1, init2, bars>>

NextMACD ==
    \/ UpdateBars
    \/ \E i \in Insts : Refresh(i)
    \/ \E i \in Insts, j \in Insts : Call(i, j)

SpecMACD == InitMACD /\ [][NextMACD]_vars

(***************************************************************************)
(* The claims.                                                             *)
(***************************************************************************)
\* The number of True values among cond[lo..hi].
TruesIn(c, lo, hi) == Cardinality({j \in lo..hi : c[j]})

\* C1: for 1 <= n <= len(cond), count(cond, n) returns len(cond) - n
\* integers, and every position of the result, the first one included,
\* holds the number of True values among the n values of cond that end at
\* the position it is aligned with, the last result position being aligned
\* with the last element of cond.
C1_CountEveryPosition ==
    (out.op = "count" /\ 1 <= n /\ n <= Len(cond)) =>
        LET size == Len(cond) - n
        IN  /\ out.raised = "none"
            /\ Len(out.res) = size
            /\ \A k \in 0..(size - 1) :
                  out.res[size - k] = TruesIn(cond, size - k + 1, Len(cond) - k)

\* C2: every(cond, n) is True at a result position exactly when all n
\* values of cond in the trailing window aligned with that position are
\* True, at every position of the result.
C2_EveryAllTrueWindow ==
    (out.op = "every" /\ 1 <= n /\ n <= Len(cond)) =>
        LET size == Len(cond) - n
        IN  /\ out.raised = "none"
            /\ Len(out.res) = size
            /\ \A k \in 0..(size - 1) :
                  out.res[size - k] = (\A j \in (size - k + 1)..(Len(cond) - k) : cond[j])

\* C3: for s1 and s2 of length >= 2, CrossOver(s1, s2) returns
\* min(len(s1), len(s2)) - 1 booleans, the last one describing the most
\* recent period; the value d periods before the most recent one is True
\* exactly when s1 > s2 at that period and s1 <= s2 one period earlier,
\* both series being aligned on their most recent element.
C3_CrossOverStrictUpwardCross ==
    (out.op = "CrossOver" /\ Len(s1) >= 2 /\ Len(s2) >= 2) =>
        LET m == Min2(Len(s1), Len(s2))
        IN  /\ out.raised = "none"
            /\ Len(out.res) = m - 1
            /\ \A d \in 0..(m - 2) :
                  out.res[m - 1 - d] =
                      (/\ Gt(s1[Len(s1) - d], s2[Len(s2) - d])
                       /\ Le(s1[Len(s1) - d - 1], s2[Len(s2) - d - 1]))

\* C3, witness: inputs of different lengths, one of them holding a NaN,
\* whose result has a cross and a period without one.
C3_Witness ==
    /\ out.op = "CrossOver"
    /\ out.raised = "none"
    /\ Len(s1) >= 2 /\ Len(s2) >= 2 /\ Len(s1) # Len(s2)
    /\ \E i \in 1..Len(s1) : IsNaN(s1[i])
    /\ \E i, j \in 1..Len(out.res) : out.res[i] /\ ~out.res[j]

\* C4: no +inf and no -inf is ever in the buffer handed to a numeric
\* kernel.
C4_NoInfiniteKernelInput ==
    out.kcalled => \A i \in 1..Len(out.karg) : ~IsInf(out.karg[i])

\* C5: an exception raised by a numeric kernel leaves the call as a
\* FormulaException that carries the original exception, at construction
\* and in the refresh of a dynamic series, and then nothing is returned.
C5_KernelErrorsWrapped ==
    (out.kcalled /\ out.raised # "none") =>
        /\ out.raised = "FormulaException"
        /\ out.arg = "Exception"
        /\ out.res = <<>>

\* The three stored periods of an instance.
Periods(m) == <<m.fastperiod, m.slowperiod, m.signalperiod>>

C7_CallReturnsNewInstance ==
    /\ out.op = "call" =>
          /\ out.other # out.inst
          /\ macd[out.inst] = out.before
          /\ macd[out.other].alive
          /\ macd[out.other].dynamic
          /\ ~macd[out.other].hasSeries
    /\ \A i \in Insts :
          /\ macd[i].alive = created[i].alive
          /\ Periods(macd[i]) = Periods(created[i])
          /\ macd[i].dynamic = created[i].dynamic

\* C7, witness: m holds a refreshed, non-empty buffer and is called with
\* periods other than its own.
C7_Witness ==
    /\ out.op = "call"
    /\ macd[out.inst].dynamic
    /\ Len(bars) > 1
    /\ Len(macd[out.inst].series) = Len(bars)
    /\ Periods(macd[out.other]) # Periods(macd[out.inst])

\* C8: the buffer of a static series keeps, element by element, the value
\* it had at construction under every operation that takes the series as
\* input.
C8_StaticBufferNeverChanges == out.op \in {"MA", "WMA", "EMA", "SUM", "ABS"} => s1 = init1

C10_MinimumMaximum ==
    (out.op \in {"minimum", "maximum"}) =>
        IF Len(s1) = 0 \/ Len(s2) = 0
        THEN /\ out.raised = "FormulaException"
             /\ out.arg = (IF out.op = "minimum" THEN "minimum size == 0"
                           ELSE "maximum size == 0")
             /\ out.res = <<>>
        ELSE LET m == Min2(Len(s1), Len(s2))
             IN  /\ out.raised = "none"
                 /\ Len(out.res) = m
                 /\ \A d \in 0..(m - 1) :
                       LET x == s1[Len(s1) - d]
                           y == s2[Len(s2) - d]
                           r == out.res[m - d]
                       IN  IF IsNaN(x) \/ IsNaN(y) THEN IsNaN(r)
                           ELSE /\ r \in {x, y}
                                /\ IF out.op = "minimum" THEN Le(r, x) /\ Le(r, y)
                                   ELSE Le(x, r) /\ Le(y, r)

\* C10, witness: minimum of inputs of different lengths, the result taking
\* a value from each of them.
C10_Witness ==
    /\ out.op = "minimum"
    /\ out.raised = "none"
    /\ Len(s1) > Len(s2)
    /\ \E i, j \in 1..Len(out.res) :
          /\ out.res[i] = Fin(0) /\ s2[i] = Fin(1)
          /\ out.res[j] = Fin(0) /\ s1[Len(s1) - Len(s2) + j] = Fin(1)

====
